---- MODULE Spec2Model ----
(***************************************************************************)
(* The enrichment pipelines of the page content script: whole-page         *)
(* overview, section summaries / heading cues, and label repair.           *)
(*                                                                         *)
(* Two versions of the content script exist in the repository:             *)
(*   src/content.js        generateCues writes aria-description cues with  *)
(*                         one LanguageModel session for the whole run;    *)
(*   src/unnamed/part_000  generateCues inserts section-summary notes and  *)
(*                         creates one Summarizer per heading; it also     *)
(*                         answers the popup's ping and inserts a visible  *)
(*                         summary block in generateOverview.              *)
(* A page has one of them loaded (variable script).                        *)
(*                                                                         *)
(* An action is the code that runs between two suspension points of an     *)
(* async function (await of a capability call, await of the pacing timer)  *)
(* or a timer callback.  Strings are sequences of one-character strings.   *)
(***************************************************************************)
EXTENDS Integers, Sequences, FiniteSets, TLC

\* ------------------------------------------------------------------ bounds
\* number of heading elements the original document may contain
NumHeadings == 2
\* number of links/buttons of the document
NumControls == 2
\* number of commands the listener receives in one behaviour, which is also
\* the number of runs that can be active together
MaxRuns == 2
\* number of announce calls followed through the live region
MaxAnnounce == 2
\* number of times the content script is loaded into the page
MaxLoads == 2
\* element siblings after a heading in the documents that try getSectionContent
MaxSiblings == 3
\* commands given from the popup
MaxCommands == 3

\* --------------------------------------------------------- program constants
\* pacing delays (ms) awaited at the top of each loop iteration
DelaySummariesMs == 1000
DelayCuesMs == 800
DelayLabelsMs == 600
\* generateCues (part_000): sectionContent.length < 30 is skipped
MinSectionLen == 30
\* generateOverview: text.length < 50 is too short
MinPageLen == 50
\* headingText.length > 200 is skipped
MaxHeadingTextLen == 200
\* label.split(" ").length <= 8
MaxLabelWords == 8
\* label.substring(0, 60), cue.substring(0, 100)
MaxLabelLen == 60
MaxCueLen == 100
\* progress announcement every 5 headings / every 10 elements
ProgressEveryHeadings == 5
ProgressEveryElements == 10
\* announce: the text is set after 100 ms and cleared after 10000 ms
AnnounceSetMs == 100
AnnounceClearMs == 10000
\* extractMainContent: text.substring(0, 5000)
MaxPageChars == 5000
\* getSectionContent: content.substring(0, 3000)
MaxSectionChars == 3000
\* getSectionContent: content.length < 50 falls back to the next tier
SectionFallbackLen == 50

\* ------------------------------------------------------------ string helpers
Whitespace == {" ", "\n", "\t"}
Quotes == {"\"", "'"}
EndPunctuation == {".", "!", "?"}

RECURSIVE TrimLeft(_)
TrimLeft(s) ==
  IF s # <<>> /\ Head(s) \in Whitespace THEN TrimLeft(Tail(s)) ELSE s

RECURSIVE TrimRight(_)
TrimRight(s) ==
  IF s # <<>> /\ s[Len(s)] \in Whitespace
    THEN TrimRight(SubSeq(s, 1, Len(s) - 1))
    ELSE s

\* String.prototype.trim
Trim(s) == TrimRight(TrimLeft(s))

\* s.split("\n")[0]
RECURSIVE FirstLine(_)
FirstLine(s) ==
  IF s = <<>> \/ Head(s) = "\n" THEN <<>> ELSE <<Head(s)>> \o FirstLine(Tail(s))

\* s.replace(/^["']|["']$/g, ""): one quote at the start, one at the end
StripQuotes(s) ==
  LET a == IF s # <<>> /\ Head(s) \in Quotes THEN Tail(s) ELSE s
  IN  IF a # <<>> /\ a[Len(a)] \in Quotes THEN SubSeq(a, 1, Len(a) - 1) ELSE a

\* s.replace(/[.!?]$/, "")
StripEndPunctuation(s) ==
  IF s # <<>> /\ s[Len(s)] \in EndPunctuation THEN SubSeq(s, 1, Len(s) - 1) ELSE s

\* s.substring(0, n)
Substring0(s, n) == IF Len(s) > n THEN SubSeq(s, 1, n) ELSE s

\* s.split(" ").length: one more than the number of space characters
SplitSpaceLength(s) == Cardinality({i \in 1..Len(s) : s[i] = " "}) + 1

\* fixContextLabels: the cleaning of the response into a label
CleanLabel(response) ==
  Substring0(StripEndPunctuation(StripQuotes(FirstLine(Trim(response)))), MaxLabelLen)

\* fixContextLabels: if (label && label.split(" ").length <= 8)
LabelAccepted(label) == label # <<>> /\ SplitSpaceLength(label) <= MaxLabelWords

\* generateCues (content.js): the cleaning of the response into a cue
CleanCue(response) ==
  Substring0(StripEndPunctuation(FirstLine(Trim(response))), MaxCueLen)

\* generateOverview / generateCues: if (summary && summary.trim())
SummaryAccepted(summary) == summary # <<>> /\ Trim(summary) # <<>>

LowerOf ==
  [c \in {"H", "O", "K"} |-> CASE c = "H" -> "h" [] c = "O" -> "o" [] c = "K" -> "k"]

\* String.prototype.toLowerCase over the alphabet of the model
ToLowerCase(s) == [i \in 1..Len(s) |-> IF s[i] \in DOMAIN LowerOf THEN LowerOf[s[i]] ELSE s[i]]

ambiguousTerms ==
  { <<"c","l","i","c","k"," ","h","e","r","e">>, <<"h","e","r","e">>,
    <<"l","e","a","r","n"," ","m","o","r","e">>, <<"r","e","a","d"," ","m","o","r","e">>,
    <<"m","o","r","e">>, <<"c","o","n","t","i","n","u","e">>, <<"n","e","x","t">>,
    <<"g","o">>, <<"v","i","e","w">>, <<"s","e","e">> }


\* ------------------------------------------------------------------- time
RECURSIVE Gcd(_, _)
Gcd(a, b) == IF b = 0 THEN a ELSE Gcd(b, a % b)

\* one tick of model time: the coarsest unit that measures every pacing delay
TickMs == Gcd(DelaySummariesMs, Gcd(DelayCuesMs, DelayLabelsMs))

\* a time counter saturates here (no delay is longer)
MaxTicks == DelaySummariesMs \div TickMs

\* --------------------------------------------------------------- the document
Scripts == {"content.js", "part_000"}
Commands == {"generateOverview", "generateCues", "fixLabels"}
\* other values of message.action: the popup's ping, and any other string
OtherActions == {"ping", "other"}
Runs == 1..MaxRuns

\* the shortest documents in which a progress announcement falls due
LongHeadings == ProgressEveryHeadings
LongControls == ProgressEveryElements
MaxH == IF NumHeadings > LongHeadings THEN NumHeadings ELSE LongHeadings
MaxC == IF NumControls > LongControls THEN NumControls ELSE LongControls

\* original headings are 1..nH; the k-th summary block inserted by
\* generateOverview (part_000) carries the heading MaxH + k
OrigHeadings == 1..MaxH
BoxHeadings == (MaxH + 1)..(MaxH + MaxRuns)
HeadingIds == OrigHeadings \cup BoxHeadings
Controls == 1..MaxC

\* an element next to a heading (or next to the heading's parent): its tag,
\* the length of its text and, for a heading element or an element that
\* contains a heading, the level of that heading (0: none)
Node(tag, rank, len) == [tag |-> tag, rank |-> rank, len |-> len]
P(len) == Node("P", 0, len)

\* what surrounds a heading: the element siblings that follow it, the element
\* siblings that follow its parent, and the length of its parent's innerText
Section(sib, psib, ptext) == [sib |-> sib, psib |-> psib, ptext |-> ptext]
\* 200 characters of text follow the heading
SecRich == Section(<<P(200)>>, <<>>, 206)
\* nothing follows the heading or its parent; the parent holds 20 characters
Sec20 == Section(<<>>, <<>>, 20)
\* 34 characters follow the heading; the parent holds 40 characters
Sec40 == Section(<<P(34)>>, <<>>, 40)

\* a heading of the document: length of its trimmed innerText, its level, what
\* surrounds it, and whether an earlier run has processed it
Heading(textLen, sec, done) == [textLen |-> textLen, rank |-> 2, sec |-> sec, done |-> done]

HeadingShapes ==
  { Heading(0, SecRich, FALSE), Heading(5, Sec20, FALSE),
    Heading(5, Sec40, FALSE), Heading(5, SecRich, FALSE) }

\* a heading that an earlier run has processed (marker and result written)
ProcessedHeadingShapes == { Heading(5, SecRich, TRUE) }

\* headings with long sections: long text in the siblings, long text next to
\* the parent, long text in the parent only, and a section that ends at the
\* next heading of the same level
LongSectionShapes ==
  { Heading(5, Section(<<P(2000), P(2000)>>, <<>>, 4010), FALSE),
    Heading(5, Section(<<P(10)>>, <<P(4000)>>, 16), FALSE),
    Heading(5, Section(<<>>, <<>>, 6000), FALSE),
    Heading(5, Section(<<Node("NAV", 0, 100), Node("H", 3, 10), P(100),
                         Node("H", 2, 10), P(5000)>>, <<>>, 5300), FALSE) }

\* the heading of an inserted summary block ("Page Summary"): the summary
\* follows it inside the block, the page follows the block
BoxShape == [textLen |-> 14, rank |-> 1, sec |-> Section(<<P(1)>>, <<P(200)>>, 16),
             done |-> FALSE]

NoLabel == [has |-> FALSE, v |-> <<>>]
\* a link or button of the document: its text and its aria-label attribute
ControlShapes ==
  { [text |-> <<"H","e","r","e">>, label |-> NoLabel, fixed |-> FALSE],
    [text |-> <<"H","o","m","e">>, label |-> NoLabel, fixed |-> FALSE],
    [text |-> <<"H","e","r","e">>, label |-> [has |-> TRUE, v |-> <<"O","K">>],
      fixed |-> FALSE] }

\* a control that an earlier label repair has fixed, with the label it wrote
FixedControlShapes ==
  { [text |-> <<"H","e","r","e">>, label |-> [has |-> TRUE, v |-> <<"a"," ","b">>],
      fixed |-> TRUE],
    [text |-> <<"H","e","r","e">>, label |-> [has |-> TRUE, v |-> <<" ">>],
      fixed |-> TRUE] }

\* controls that try the selection test: a short text, no text, a text inside
\* whitespace, a whitespace-only aria-label on a clear text, a short text
\* with an aria-label
SelectionControlShapes ==
  { [text |-> <<"O","K">>, label |-> NoLabel, fixed |-> FALSE],
    [text |-> <<>>, label |-> NoLabel, fixed |-> FALSE],
    [text |-> <<" ","H","e","r","e"," ">>, label |-> NoLabel, fixed |-> FALSE],
    [text |-> <<"H","o","m","e">>, label |-> [has |-> TRUE, v |-> <<" ">>], fixed |-> FALSE],
    [text |-> <<"O","K">>, label |-> [has |-> TRUE, v |-> <<"O","K">>], fixed |-> FALSE] }

\* lengths of the innerText of the content area
PageLengths == {40, 200, 6000}

\* what the capability answers
AvailabilityValues == {"no", "after-download", "readily"}
SummaryTexts == { <<>>, <<" ">>, <<"s">> }
LabelTexts ==
  { <<>>, <<"\"", " ", "\"">>, <<"a", " ", "b", ".">>,
    <<"a"," ","a"," ","a"," ","a"," ","a"," ","a"," ","a"," ","a"," ","a">> }
Str(x) == [t |-> "str", s |-> x]
Thrown == [t |-> "throw", s |-> <<>>]
Undefined == [t |-> "undefined", s |-> <<>>]
\* a generation call returns a string, returns a non-string, or throws
SummaryOutcomes == {Str(x) : x \in SummaryTexts} \cup {Thrown, Undefined}
LabelOutcomes == {Str(x) : x \in LabelTexts} \cup {Thrown, Undefined}

VARIABLES
  script,      \* the content script loaded in the page
  nH,          \* number of heading elements of the original document
  hShape,      \* hShape[h]: the shape of original heading h
  pageLen,     \* length of the page text
  boxes,       \* summary blocks inserted at the top of body
  hSummary,    \* headings carrying data-cognitive-summary
  hCue,        \* headings carrying data-cognitive-cue
  hDesc,       \* headings carrying aria-description
  notes,       \* notes[h]: cognitive-section-summary notes inserted after h
  cText,       \* cText[c]: text of control c
  cLabel,      \* cLabel[c]: aria-label of control c
  cFixed,      \* controls carrying data-cognitive-fixed
  runs,        \* runs[r]: a call of a pipeline function (its locals)
  started,     \* number of messages received
  replies,     \* the sendResponse calls of the listener, in order
  earlier,     \* pipelines of the runs completed before the latest command
  live,        \* the announcer: the live region of the document, the timers
               \* of announce and the loads of the content script
  sect,        \* a call of getSectionContent: its heading and its locals
  popup,       \* the popup: a call of sendMessageToTab and what each sent
               \* command started in the page
  mode         \* how the behaviour is driven: "single", "timed",
               \* "sequential", "overlap", "long", "announce", "section",
               \* "popup"


docVars == <<script, nH, hShape, pageLen, live, sect, popup, mode>>
runVars == <<started, earlier, replies>>
headingVars == <<hSummary, hCue, hDesc, notes>>
controlVars == <<cLabel, cFixed>>
vars == <<script, nH, hShape, pageLen, boxes, hSummary, hCue, hDesc, notes,
          cText, cLabel, cFixed, runs, started, earlier, replies, live, sect, popup,
          mode>>

Shape(h) == IF h \in BoxHeadings THEN BoxShape ELSE hShape[h]

SkippedTags == {"SCRIPT", "STYLE", "NAV", "ASIDE"}

\* content += text + " " when the element is not skipped and has text; content
\* is the length of the string and whether it ends with the separator
AddText(c, n) ==
  IF n.tag \notin SkippedTags /\ n.len > 0
    THEN [len |-> c.len + n.len + 1, sp |-> TRUE]
    ELSE c

\* getSectionContent, first loop: the siblings up to a heading of the same or
\* a higher level, cut at 3000 characters
RECURSIVE SiblingsText(_, _, _)
SiblingsText(nodes, level, c) ==
  IF nodes = <<>> THEN c
  ELSE LET n == Head(nodes)
           a == AddText(c, n)
       IN  IF n.tag = "H" /\ n.rank <= level THEN c
           ELSE IF a.len > MaxSectionChars
             THEN [len |-> MaxSectionChars, sp |-> c.len = MaxSectionChars /\ c.sp]
             ELSE SiblingsText(Tail(nodes), level, a)

\* getSectionContent, second loop: the siblings of the parent, while
\* content.length < 3000, up to an element with a heading of the same or a
\* higher level
RECURSIVE ParentSiblingsText(_, _, _)
ParentSiblingsText(nodes, level, c) ==
  IF nodes = <<>> \/ c.len >= MaxSectionChars THEN c
  ELSE LET n == Head(nodes)
       IN  IF n.rank > 0 /\ n.rank <= level THEN c
           ELSE ParentSiblingsText(Tail(nodes), level, AddText(c, n))

\* getSectionContent(heading), as the length of the string it returns
SectionContentLen(shape) ==
  LET c1 == SiblingsText(shape.sec.sib, shape.rank, [len |-> 0, sp |-> FALSE])
      c2 == IF c1.len < SectionFallbackLen
              THEN ParentSiblingsText(shape.sec.psib, shape.rank, c1) ELSE c1
      c3 == IF c2.len < SectionFallbackLen
              THEN [len |-> IF shape.sec.ptext > MaxSectionChars THEN MaxSectionChars
                            ELSE shape.sec.ptext,
                    sp |-> FALSE]
              ELSE c2
  IN  IF c3.sp THEN c3.len - 1 ELSE c3.len

\* the text getSectionContent(heading) returns, by its length
getSectionContentLen(h) == SectionContentLen(Shape(h))

\* extractMainContent(), by its length: text.substring(0, 5000)
extractMainContentLen == IF pageLen > MaxPageChars THEN MaxPageChars ELSE pageLen

\* ------------------------------------------------ getSectionContent, by steps
\* the elements that may follow a heading: paragraphs, a heading of the same
\* level, a heading of a lower level, a navigation block
SiblingNodes ==
  { P(10), P(60), P(2990), Node("H", 2, 10), Node("H", 3, 10), Node("NAV", 0, 60) }

RECURSIVE SeqsUpTo(_, _)
SeqsUpTo(S, n) ==
  IF n = 0 THEN {<<>>}
  ELSE LET shorter == SeqsUpTo(S, n - 1)
       IN  shorter \cup {Append(q, x) : q \in {t \in shorter : Len(t) = n - 1}, x \in S}

\* the elements that may follow the heading's parent: nothing, a paragraph, a
\* block that holds the next heading of the same level, a block with a
\* lower-level heading and a paragraph after it
ParentSiblingLists ==
  { <<>>, <<P(60)>>, <<Node("DIV", 2, 60)>>, <<Node("DIV", 3, 60), P(60)>> }

RECURSIVE NodesTextLen(_)
NodesTextLen(nodes) ==
  IF nodes = <<>> THEN 0
  ELSE (IF Head(nodes).len > 0 THEN Head(nodes).len + 1 ELSE 0) + NodesTextLen(Tail(nodes))

\* a level-2 heading of 5 characters whose parent holds the heading and the
\* siblings that follow it
SectionShapes ==
  { Heading(5, Section(sib, psib, 5 + NodesTextLen(sib)), FALSE) :
      sib \in SeqsUpTo(SiblingNodes, MaxSiblings), psib \in ParentSiblingLists }

\* a piece of the document that text was taken from: an element sibling of
\* the heading, an element sibling of its parent, or what the parent holds
\* before the siblings (the heading itself included)
Source(list, i) == [list |-> list, i |-> i]

\* heading.parentElement.innerText: the characters before the i-th sibling
ParentOffset(sec, i) ==
  (sec.ptext - NodesTextLen(sec.sib)) + NodesTextLen(SubSeq(sec.sib, 1, i - 1))

\* parentText.substring(0, 3000): the pieces of the parent it takes text from
ParentTextSources(sec) ==
  {Source("parent", 0)}
    \cup {Source("sib", i) : i \in {k \in 1..Len(sec.sib) :
            sec.sib[k].len > 0 /\ ParentOffset(sec, k) < MaxSectionChars}}

NoSection ==
  [ shape |-> Heading(5, SecRich, FALSE), pc |-> "off", i |-> 1,
    len |-> 0, sp |-> FALSE,   \* content: its length, whether it ends with " "
    from |-> {} ]              \* the pieces content holds text of

\* where the first loop goes when it ends: if (content.length < 50)
AfterSiblings(len) == IF len < SectionFallbackLen THEN "parentSiblings" ELSE "lastResort"

RECURSIVE Descending(_, _)
Descending(hi, lo) == IF hi < lo THEN <<>> ELSE <<hi>> \o Descending(hi - 1, lo)

RECURSIVE Ascending(_, _)
Ascending(lo, hi) == IF hi < lo THEN <<>> ELSE <<lo>> \o Ascending(lo + 1, hi)

\* document.querySelectorAll("h1, h2, h3, h4, h5, h6"): document order; every
\* summary block was inserted before the first child of body
QueryHeadingsReversed == Ascending(MaxH + 1, MaxH + boxes) \o Descending(nH, 1)
QueryHeadings == Descending(MaxH + boxes, MaxH + 1) \o Ascending(1, nH)

\* position of a heading in the document
DocPosH(h) == IF h \in BoxHeadings THEN MaxH + MaxRuns + 1 - h
              ELSE MaxRuns + h

\* fixContextLabels: el.hasAttribute("aria-label") && el.getAttribute("aria-label").trim()
hasLabelUntrimmed(c) == cLabel[c].has /\ cLabel[c].v # <<>>
hasLabel(c) == cLabel[c].has /\ Trim(cLabel[c].v) # <<>>

\* fixContextLabels: the test that puts an element into elementsToFix
NeedsFixing(c) ==
  LET text == ToLowerCase(Trim(cText[c]))
  IN  ~hasLabel(c) /\ (text \in ambiguousTerms \/ Len(text) < 3 \/ text = <<>>)

RECURSIVE SelectFrom(_)
SelectFrom(c) ==
  IF c > MaxC THEN <<>>
  ELSE (IF NeedsFixing(c) THEN <<c>> ELSE <<>>) \o SelectFrom(c + 1)

\* fixContextLabels: elementsToFix, in the order of querySelectorAll("a, button")
elementsToFix == SelectFrom(1)


\* ------------------------------------------------------------- the announcer
\* one tick of announcer time
AnnounceTickMs == Gcd(AnnounceSetMs, AnnounceClearMs)
SetTicks == AnnounceSetMs \div AnnounceTickMs
ClearTicks == AnnounceClearMs \div AnnounceTickMs

\* the texts announced
AnnounceTexts == {"X", "Y"}

\* the times between two announce calls, in ticks: at once, when the set timer
\* of the call before is due, just before and when its clear timer is due (or
\* later)
CallGaps == {0, SetTicks, ClearTicks - 1, ClearTicks}

\* createPersistentLiveRegion: the number of elements with the announcer's id
\* after the call, from that number before it
CreateRegionAlways(n) == n + 1
createPersistentLiveRegion(n) == IF n = 0 THEN 1 ELSE n

\* the page before the content script is loaded
NoAnnouncer ==
  [ regions |-> 0,      \* elements with id cognitive-layer-announcer
    text |-> "",        \* innerText of the region
    timers |-> <<>>,    \* pending setTimeout callbacks of announce, oldest first
    loads |-> 0,        \* loads of the content script
    calls |-> <<>>,     \* announce calls: text, ticks since the call before
    since |-> 0,        \* ticks since the last announce call
    rises |-> 0 ]       \* changes of the region from empty to a text

\* the content script runs: its last statements create the live region (at
\* once, or on DOMContentLoaded when the document is still loading)
LoadedScript(l) ==
  [l EXCEPT !.loads = @ + 1, !.regions = createPersistentLiveRegion(@)]

\* the page with the content script loaded once
LoadedAnnouncer == LoadedScript(NoAnnouncer)

Timer(kind, text, left) == [kind |-> kind, text |-> text, left |-> left]

\* announce(text): clear the region, set the text after 100 ms, clear after 10 s
AnnounceCall(l, text) ==
  [l EXCEPT !.regions = createPersistentLiveRegion(@),
            !.text = "",
            !.timers = @ \o <<Timer("set", text, SetTicks), Timer("clear", "", ClearTicks)>>,
            !.calls = Append(@, [text |-> text, gap |-> l.since]),
            !.since = 0]

\* the callback of a timer of announce: region.innerText = text, or = ""
TimerCallback(l, t) ==
  [l EXCEPT !.text = t.text,
            !.rises = IF l.text = "" /\ t.text # "" THEN @ + 1 ELSE @]

\* the sequence without its i-th element
Remove(seq, i) == SubSeq(seq, 1, i - 1) \o SubSeq(seq, i + 1, Len(seq))

\* ----------------------------------------------------------------- the popup
\* the popup with no command under way
NoPopup ==
  [ pc |-> "idle",
    action |-> "none",   \* the action of the command under way
    sent |-> <<>>,       \* the actions sent to the tab, in order
    started |-> <<>> ]   \* for each, the pipeline runs it started in the page

\* ------------------------------------------------------------------- a run
Min(a, b) == IF a < b THEN a ELSE b
Max(a, b) == IF a > b THEN a ELSE b

\* the pipeline a command starts: generateCues differs between the scripts
KindOf(cmd) ==
  CASE cmd = "generateOverview" -> "overview"
    [] cmd = "fixLabels" -> "labels"
    [] cmd = "generateCues" -> IF script = "part_000" THEN "summaries" ELSE "cues"

\* setTimeout(resolve, ...) at the top of the loop body, in ms
PacingDelayNone(kind) == 0
PacingDelayMs(kind) ==
  CASE kind = "summaries" -> DelaySummariesMs
    [] kind = "cues" -> DelayCuesMs
    [] kind = "labels" -> DelayLabelsMs
    [] OTHER -> 0

DelayTicks(kind) == PacingDelayMs(kind) \div TickMs

IdleRun ==
  [ kind |-> "none", pc |-> "idle", outcome |-> "none",
    items |-> <<>>, idx |-> 0, successCount |-> 0,
    ann |-> <<>>,            \* announce() calls of the run, in order
    pendingAnn |-> "none",   \* announcement waiting in setTimeout(..., 500)
    pastChecks |-> FALSE,    \* availability and precondition checks passed
    availability |-> "none", \* what availability() answered
    createFailures |-> 0,    \* create() calls that threw
    itemFailures |-> 0,      \* failures inside the per-item try block
    resubmitted |-> FALSE,   \* a generation call took a marked node as its item
    availCalls |-> 0, createCalls |-> 0, genCalls |-> 0,
    created |-> 0,           \* sessions create() returned
    destroyed |-> 0,         \* destroy() calls
    inflight |-> 0,          \* capability calls not yet settled
    timer |-> 0,             \* ticks until the pacing timer may fire
    waited |-> 0,            \* ticks since the pacing timer was set
    sinceCap |-> 0,          \* ticks since the last capability call event
    sinceGen |-> 0,          \* ticks since the last generation call settled
    capGapMin |-> MaxTicks,  \* least gap before a capability call (not the first)
    genGapMin |-> MaxTicks,  \* least gap between two generation calls
    waitedMin |-> MaxTicks,  \* least pacing wait before a generation call
    called |-> <<>>,         \* item indexes handed to a generation call
    results |-> <<>>,        \* how each finished item ended
    marked |-> <<>>,         \* nodes the run set the marker attribute on
    written |-> <<>>,        \* nodes the run wrote a result on or after
    finalCount |-> 0,        \* the count in the final announcement
    progress |-> <<>> ]      \* the k of each "Processed k of N" announcement

Active(rr) == rr.pc \notin {"idle", "done"}
\* the async function has returned
Ended(rr) == rr.outcome # "none"
CapCalls(rr) == rr.availCalls + rr.createCalls + rr.genCalls

\* announce(text): the call, by the kind of message
announce(rr, msg) == [rr EXCEPT !.ann = Append(@, msg)]

\* the node of the current item carries the marker of the run's pipeline
ItemMarked(rr) ==
  CASE rr.kind = "summaries" -> rr.items[rr.idx] \in hSummary
    [] rr.kind = "cues" -> rr.items[rr.idx] \in hCue
    [] rr.kind = "labels" -> rr.items[rr.idx] \in cFixed
    [] OTHER -> FALSE

\* a capability call begins: availability(), create() or summarize()/prompt()
BeginCall(rr, api) ==
  LET a == [rr EXCEPT !.inflight = @ + 1,
                      !.capGapMin = IF CapCalls(rr) > 0 THEN Min(@, rr.sinceCap) ELSE @,
                      !.sinceCap = 0]
  IN  CASE api = "availability" -> [a EXCEPT !.availCalls = @ + 1, !.pc = "awaitAvail"]
        [] api = "create" -> [a EXCEPT !.createCalls = @ + 1, !.pc = "awaitCreate"]
        [] api = "run" ->
             [a EXCEPT !.genCalls = @ + 1, !.pc = "awaitGen",
                       !.genGapMin = IF rr.genCalls > 0 THEN Min(@, rr.sinceGen) ELSE @,
                       !.waitedMin = Min(@, rr.waited),
                       !.called = Append(@, rr.idx),
                       !.resubmitted = @ \/ ItemMarked(rr)]

\* the awaited capability call settles (resolves or rejects)
SettleCall(rr) ==
  [rr EXCEPT !.inflight = @ - 1, !.sinceCap = 0,
             !.sinceGen = IF rr.pc = "awaitGen" THEN 0 ELSE @]

\* the outer catch block of the pipeline function
RunFailsSilently(rr) == [rr EXCEPT !.pc = "done", !.outcome = "aborted"]
RunFails(rr) ==
  IF rr.kind = "overview"
    THEN [rr EXCEPT !.pc = "announceTimer", !.pendingAnn = "failed", !.outcome = "aborted"]
    ELSE [announce(rr, "failed") EXCEPT !.pc = "done", !.outcome = "aborted"]

\* the precondition branch: announce and return
PreconditionAbort(rr) ==
  [announce(rr, "precondition") EXCEPT !.pc = "done", !.outcome = "aborted"]

\* the code after the loop: finally { session.destroy() } where the session is
\* the run's, then the final announcement
LoopEnd(rr) ==
  LET a == IF rr.kind \in {"cues", "labels"} THEN [rr EXCEPT !.destroyed = @ + 1] ELSE rr
  IN  [announce(a, "complete") EXCEPT !.pc = "done", !.outcome = "completed",
                                      !.finalCount = rr.successCount]

\* await new Promise(resolve => setTimeout(resolve, delay)) at the loop top
EnterIterationNoTimer(rr, i) == [rr EXCEPT !.idx = i, !.pc = "pending"]
EnterIteration(rr, i) ==
  [rr EXCEPT !.idx = i, !.pc = "delay", !.timer = DelayTicks(rr.kind), !.waited = 0]

\* the end of one loop iteration (continue, the end of the try or the inner
\* catch): the next iteration, or the code after the loop
NextItemRetry(rr, res) ==
  LET a == [rr EXCEPT !.results = Append(@, res)]
      tried == Cardinality({i \in 1..Len(rr.called) : rr.called[i] = rr.idx})
  IN  IF res \in {"failed", "rejected"} /\ tried = 1 THEN EnterIteration(rr, rr.idx)
      ELSE IF rr.idx < Len(rr.items) THEN EnterIteration(a, rr.idx + 1) ELSE LoopEnd(a)
NextItem(rr, res) ==
  LET a == [rr EXCEPT !.results = Append(@, res)]
  IN  IF rr.idx < Len(rr.items) THEN EnterIteration(a, rr.idx + 1) ELSE LoopEnd(a)

\* the inner catch block: console.error only
ItemFailsAbortsRun(rr) == RunFails(rr)
ItemFails(rr) == NextItem(rr, "failed")

\* the document every heading, control and page text of which is a target
RichHeading == Heading(5, SecRich, FALSE)
AmbiguousControl == [text |-> <<"H","e","r","e">>, label |-> NoLabel, fixed |-> FALSE]
\* a control with a clear text
PlainControl == [text |-> <<"H","o","m","e">>, label |-> NoLabel, fixed |-> FALSE]
RichDocument ==
  [ n |-> NumHeadings, h |-> [h \in OrigHeadings |-> RichHeading],
    c |-> [c \in Controls |-> IF c <= NumControls THEN AmbiguousControl ELSE PlainControl],
    page |-> 200 ]

\* the document with as many headings and ambiguous controls as a progress
\* announcement needs
LongDocument ==
  [ n |-> LongHeadings, h |-> [h \in OrigHeadings |-> RichHeading],
    c |-> [c \in Controls |-> IF c <= LongControls THEN AmbiguousControl ELSE PlainControl],
    page |-> 200 ]

HeadingChoices(n, shapes) ==
  { [h \in OrigHeadings |-> IF h <= n THEN g[h] ELSE RichHeading] :
      g \in [1..n -> shapes \cup {RichHeading}] }

ControlChoices(shapes) ==
  { [c \in Controls |-> IF c <= NumControls THEN g[c] ELSE PlainControl] :
      g \in [1..NumControls -> shapes] }

\* the documents of the model: the rich document with its headings, or its
\* controls, or its page text replaced
Documents(hShapes, cShapes) ==
  UNION { { [RichDocument EXCEPT !.n = n, !.h = hs] : hs \in HeadingChoices(n, hShapes) } :
          n \in 0..NumHeadings }
  \cup { [RichDocument EXCEPT !.c = cs] : cs \in ControlChoices(cShapes) }
  \cup { [RichDocument EXCEPT !.page = p] : p \in PageLengths }

\* a document no run has touched
FreshDocuments == Documents(HeadingShapes, ControlShapes)

\* a document as earlier runs may have left it
UsedDocuments ==
  Documents(HeadingShapes \cup ProcessedHeadingShapes, ControlShapes \cup FixedControlShapes)

\* also the documents with long sections and with the controls that try the
\* selection test of label repair
AllDocuments ==
  UsedDocuments \cup Documents(LongSectionShapes, SelectionControlShapes \cup {AmbiguousControl})

InitDocument(docs) ==
  /\ script \in Scripts
  /\ \E d \in docs :
       LET processed == {h \in 1..d.n : d.h[h].done} IN
       /\ nH = d.n
       /\ hShape = d.h
       /\ pageLen = d.page
       /\ hSummary = IF script = "part_000" THEN processed ELSE {}
       /\ hCue = IF script = "content.js" THEN processed ELSE {}
       /\ hDesc = IF script = "content.js" THEN processed ELSE {}
       /\ notes = [h \in HeadingIds |->
                     IF script = "part_000" /\ h \in processed THEN 1 ELSE 0]
       /\ cText = [c \in Controls |-> d.c[c].text]
       /\ cLabel = [c \in Controls |-> d.c[c].label]
       /\ cFixed = {c \in Controls : d.c[c].fixed}
  /\ boxes = 0
  /\ runs = [r \in Runs |-> IdleRun]
  /\ started = 0
  /\ earlier = {}
  /\ replies = <<>>

\* the content script has been loaded once and has announced nothing yet
InitAnnouncer == live = LoadedAnnouncer /\ sect = NoSection /\ popup = NoPopup

\* one command, on any document of the model; time is not
\* measured: a pacing timer fires at any moment after it was set
Init == InitDocument(AllDocuments) /\ InitAnnouncer /\ mode = "single"

\* one command on a fresh document, with time measured in ticks
InitTimed == InitDocument(FreshDocuments) /\ InitAnnouncer /\ mode = "timed"

\* one command given again and again on a fresh document, each time after the
\* run before it has ended
InitSequential == InitDocument(FreshDocuments) /\ InitAnnouncer /\ mode = "sequential"

\* any commands on a fresh document, arriving at any moment
InitOverlap == InitDocument(FreshDocuments) /\ InitAnnouncer /\ mode = "overlap"

\* one command on the long document
InitProgress == InitDocument({LongDocument}) /\ InitAnnouncer /\ mode = "long"

\* the announcer alone, from the page before the content script is loaded:
\* announce is called with any text at any time
InitAnnounce ==
  /\ InitDocument({RichDocument}) /\ live = NoAnnouncer /\ sect = NoSection
  /\ popup = NoPopup /\ mode = "announce"

\* the popup alone, on a tab whose page has no content script yet; script is
\* the file the extension ships as content.js
InitPopup ==
  /\ InitDocument({RichDocument}) /\ live = NoAnnouncer /\ sect = NoSection
  /\ popup = NoPopup /\ mode = "popup"

\* getSectionContent alone, called for a heading with any of the surroundings
\* of SectionShapes
InitSection ==
  /\ InitDocument({RichDocument}) /\ script = "part_000"
  /\ live = LoadedAnnouncer /\ popup = NoPopup /\ mode = "section"
  /\ \E shape \in SectionShapes : sect = [NoSection EXCEPT !.shape = shape, !.pc = "siblings"]


\* ---------------------------------------------------------------- the actions
SetRun(r, rr) == runs' = [runs EXCEPT ![r] = rr]

\* when the listener may receive a message; where commands follow one another,
\* each comes after the run before it has ended, and a message that is not a
\* command is the last one
MessageArrives ==
  /\ started < MaxRuns
  /\ mode \in {"single", "timed", "long"} => started = 0
  /\ mode = "sequential" =>
       /\ \A q \in Runs : ~Active(runs[q])
       /\ \A i \in 1..Len(replies) : replies[i].action \in Commands

\* the status the listener passes to sendResponse
ListenerReplyUnknown(action) == "unknown_action"
ListenerReply(action) ==
  CASE action = "ping" /\ script = "part_000" -> "pong"
    [] action \in Commands -> "started"
    [] OTHER -> "unknown_action"

\* the message listener receives a ping or an action it does not know
ReceiveOther(action) ==
  /\ MessageArrives
  /\ started' = started + 1
  /\ replies' = Append(replies, [action |-> action, status |-> ListenerReply(action)])
  /\ UNCHANGED <<docVars, earlier, runs, boxes, headingVars, cText, controlVars>>

\* the message listener receives a work command: the pipeline function runs up
\* to its first await (announce, the test of window.Summarizer /
\* window.LanguageModel, the call of availability())
StartRun(r, cmd) ==
  /\ MessageArrives
  /\ ~Active(runs[r])
  /\ \A q \in Runs : q < r => Active(runs[q])
  /\ mode = "sequential" => \A q \in Runs : runs[q].kind \in {"none", KindOf(cmd)}
  /\ started' = started + 1
  /\ replies' = Append(replies, [action |-> cmd, status |-> ListenerReply(cmd)])
  /\ earlier' = earlier \cup {runs[q].kind : q \in {x \in Runs : runs[x].outcome = "completed"}}
  /\ \E apiPresent \in BOOLEAN :
       LET a == announce([IdleRun EXCEPT !.kind = KindOf(cmd)], "start")
       IN  SetRun(r, IF apiPresent THEN BeginCall(a, "availability") ELSE RunFails(a))
  /\ UNCHANGED <<docVars, boxes, headingVars, cText, controlVars>>

\* if (availability === "no") throw
UnavailableNever(a) == FALSE
Unavailable(a) == a = "no"

\* the whole-document precondition of each pipeline
PreconditionFailsNever(kind, items) == FALSE
PreconditionFails(kind, items) ==
  IF kind = "overview" THEN extractMainContentLen < MinPageLen ELSE Len(items) = 0

\* the targets of a run: headings, or elementsToFix
TargetsOf(kind) ==
  CASE kind = "overview" -> <<>>
    [] kind = "labels" -> elementsToFix
    [] OTHER -> QueryHeadings

\* from the availability test to the next await
AfterAvailability(rr) ==
  LET items == TargetsOf(rr.kind)
      b == [rr EXCEPT !.items = items]
      a == announce([b EXCEPT !.pastChecks = TRUE], "generating")
  IN  IF PreconditionFails(rr.kind, items) THEN PreconditionAbort(b)
      ELSE IF rr.kind = "summaries" THEN EnterIteration(a, 1)
      ELSE BeginCall(a, "create")

\* availability() settles
AvailabilitySettles(r, a) ==
  /\ runs[r].pc = "awaitAvail"
  /\ LET rr == [SettleCall(runs[r]) EXCEPT !.availability = a]
     IN  SetRun(r, IF a = "throw" \/ Unavailable(a) THEN RunFails(rr)
                   ELSE IF a = "after-download"
                     THEN AfterAvailability(announce(rr, "download"))
                     ELSE AfterAvailability(rr))
  /\ UNCHANGED <<docVars, runVars, boxes, headingVars, cText, controlVars>>

\* create() throws: the catch block that encloses the call
CreateFails(rr) ==
  IF rr.kind = "summaries" THEN ItemFails([rr EXCEPT !.itemFailures = @ + 1])
  ELSE RunFails(rr)

\* create() settles
CreateSettles(r, ok) ==
  /\ runs[r].pc = "awaitCreate"
  /\ LET rr == SettleCall(runs[r])
         a == [rr EXCEPT !.created = @ + 1]
     IN  SetRun(r, IF ~ok THEN CreateFails([rr EXCEPT !.createFailures = @ + 1])
                   ELSE IF rr.kind \in {"overview", "summaries"} THEN BeginCall(a, "run")
                   ELSE EnterIteration(a, 1))
  /\ UNCHANGED <<docVars, runVars, boxes, headingVars, cText, controlVars>>

\* if (heading.hasAttribute("data-cognitive-summary")) continue  (-cue in content.js)
AlreadyProcessedNever(kind, h) == FALSE
AlreadyProcessed(kind, h) == IF kind = "summaries" THEN h \in hSummary ELSE h \in hCue

\* the continue statements of generateCues that precede the capability call
HeadingSkipped(kind, h) ==
  \/ Shape(h).textLen = 0
  \/ Shape(h).textLen > MaxHeadingTextLen
  \/ AlreadyProcessed(kind, h)
  \/ kind = "summaries" /\ getSectionContentLen(h) < MinSectionLen

\* the pacing timer fires: the loop body up to its capability call
PacingTimerFires(r) ==
  /\ runs[r].pc = "delay"
  /\ mode = "timed" => runs[r].timer = 0
  /\ LET rr == runs[r]
         h == rr.items[rr.idx]
     IN  SetRun(r, CASE rr.kind = "labels" -> BeginCall(rr, "run")
                     [] rr.kind = "cues" ->
                          IF HeadingSkipped(rr.kind, h) THEN NextItem(rr, "skipped")
                          ELSE BeginCall(rr, "run")
                     [] rr.kind = "summaries" ->
                          IF HeadingSkipped(rr.kind, h) THEN NextItem(rr, "skipped")
                          ELSE BeginCall(announce(rr, "processing"), "create"))
  /\ UNCHANGED <<docVars, runVars, boxes, headingVars, cText, controlVars>>

\* heading.setAttribute("data-cognitive-summary", "true") and its like
LogMarker(rr, n) == [rr EXCEPT !.marked = Append(@, n)]
\* heading.insertAdjacentElement("afterend", summaryBox) and its like
LogResult(rr, n) == [rr EXCEPT !.written = Append(@, n)]

\* if ((index + 1) % 5 === 0), % 10 in fixContextLabels
ProgressDueAlways(idx, every) == TRUE
ProgressDue(idx, every) == idx % every = 0

\* announce(`Processed ${index + 1} of ...`)
AnnounceProgress(rr) == [announce(rr, "progress") EXCEPT !.progress = Append(@, rr.idx)]

\* the accepted branch: successCount++ and the progress announcement
ItemAcceptedUncounted(rr, every) ==
  NextItem(IF ProgressDue(rr.idx, every) THEN AnnounceProgress(rr) ELSE rr, "accepted")
ItemAccepted(rr, every) ==
  LET a == [rr EXCEPT !.successCount = @ + 1]
  IN  NextItem(IF ProgressDue(rr.idx, every) THEN AnnounceProgress(a) ELSE a, "accepted")

\* generateOverview: summarize() settles
OverviewSettles(r, rr, o) ==
  LET d == [rr EXCEPT !.destroyed = @ + 1]
      accepted == o.t = "str" /\ SummaryAccepted(o.s)
  IN  /\ SetRun(r, IF o.t = "throw" THEN RunFails(rr)
                   ELSE IF accepted
                     THEN [d EXCEPT !.pc = "announceTimer", !.pendingAnn = "complete",
                                    !.outcome = "completed"]
                     ELSE RunFails(d))
      /\ boxes' = IF accepted /\ script = "part_000" THEN boxes + 1 ELSE boxes
      /\ UNCHANGED <<docVars, runVars, headingVars, cText, controlVars>>

\* generateCues (part_000): summarize() settles
SummariesSettles(r, rr, o) ==
  LET d == [rr EXCEPT !.destroyed = @ + 1]
      h == rr.items[rr.idx]
      accepted == o.t = "str" /\ SummaryAccepted(o.s)
  IN  /\ SetRun(r, IF o.t = "throw" THEN ItemFails([rr EXCEPT !.itemFailures = @ + 1])
                   ELSE IF accepted
                     THEN ItemAccepted(LogResult(LogMarker(d, h), h), ProgressEveryHeadings)
                   ELSE NextItem(d, "rejected"))
      /\ hSummary' = IF accepted THEN hSummary \cup {h} ELSE hSummary
      /\ notes' = IF accepted THEN [notes EXCEPT ![h] = @ + 1] ELSE notes
      /\ UNCHANGED <<docVars, runVars, boxes, hCue, hDesc, cText, controlVars>>

\* generateCues (content.js): session.prompt() settles
CuesSettles(r, rr, o) ==
  LET h == rr.items[rr.idx]
      accepted == o.t = "str" /\ CleanCue(o.s) # <<>>
  IN  /\ SetRun(r, IF o.t # "str" THEN ItemFails([rr EXCEPT !.itemFailures = @ + 1])
                   ELSE IF accepted
                     THEN ItemAccepted(LogResult(LogMarker(rr, h), h), ProgressEveryHeadings)
                   ELSE NextItem(rr, "rejected"))
      /\ hCue' = IF accepted THEN hCue \cup {h} ELSE hCue
      /\ hDesc' = IF accepted THEN hDesc \cup {h} ELSE hDesc
      /\ UNCHANGED <<docVars, runVars, boxes, hSummary, notes, cText, controlVars>>

\* fixContextLabels: session.prompt() settles
LabelsSettles(r, rr, o) ==
  LET c == rr.items[rr.idx]
      label == CleanLabel(o.s)
      accepted == o.t = "str" /\ LabelAccepted(label)
  IN  /\ SetRun(r, IF o.t # "str" THEN ItemFails([rr EXCEPT !.itemFailures = @ + 1])
                   ELSE IF accepted
                     THEN ItemAccepted(LogMarker(LogResult(rr, c), c), ProgressEveryElements)
                   ELSE NextItem(rr, "rejected"))
      /\ cLabel' = IF accepted THEN [cLabel EXCEPT ![c] = [has |-> TRUE, v |-> label]]
                   ELSE cLabel
      /\ cFixed' = IF accepted THEN cFixed \cup {c} ELSE cFixed
      /\ UNCHANGED <<docVars, runVars, boxes, headingVars, cText>>

\* what a generation call may answer: on the long document an acceptable text
\* or an exception
Answers(kind) ==
  IF mode = "long"
    THEN IF kind \in {"overview", "summaries"} THEN {Str(<<"s">>), Thrown}
         ELSE {Str(<<"a", " ", "b", ".">>), Thrown}
    ELSE IF kind \in {"overview", "summaries"} THEN SummaryOutcomes ELSE LabelOutcomes

\* the generation call (summarize / prompt) settles
GenerationSettles(r, o) ==
  /\ runs[r].pc = "awaitGen"
  /\ o \in Answers(runs[r].kind)
  /\ LET rr == SettleCall(runs[r])
     IN  CASE rr.kind = "overview" -> OverviewSettles(r, rr, o)
           [] rr.kind = "summaries" -> SummariesSettles(r, rr, o)
           [] rr.kind = "cues" -> CuesSettles(r, rr, o)
           [] rr.kind = "labels" -> LabelsSettles(r, rr, o)

\* generateOverview: the callback of setTimeout(..., 500) announces the result
AnnounceTimerFires(r) ==
  /\ runs[r].pc = "announceTimer"
  /\ SetRun(r, [announce(runs[r], runs[r].pendingAnn) EXCEPT !.pc = "done",
                                                        !.pendingAnn = "none"])
  /\ UNCHANGED <<docVars, runVars, boxes, headingVars, cText, controlVars>>

TickRun(rr) ==
  [rr EXCEPT !.timer = Max(0, @ - 1),
             !.waited = Min(MaxTicks, @ + 1),
             !.sinceCap = Min(MaxTicks, @ + 1),
             !.sinceGen = Min(MaxTicks, @ + 1)]

\* TickMs of time pass
Tick ==
  /\ mode = "timed"
  /\ \E r \in Runs : Active(runs[r]) /\ TickRun(runs[r]) # runs[r]
  /\ runs' = [r \in Runs |-> IF Active(runs[r]) THEN TickRun(runs[r]) ELSE runs[r]]
  /\ UNCHANGED <<docVars, runVars, boxes, headingVars, cText, controlVars>>

Next ==
  \/ \E r \in Runs, cmd \in Commands : StartRun(r, cmd)
  \/ \E action \in OtherActions : ReceiveOther(action)
  \/ \E r \in Runs, a \in AvailabilityValues \cup {"throw"} : AvailabilitySettles(r, a)
  \/ \E r \in Runs, ok \in BOOLEAN : CreateSettles(r, ok)
  \/ \E r \in Runs : PacingTimerFires(r)
  \/ \E r \in Runs, o \in SummaryOutcomes \cup LabelOutcomes : GenerationSettles(r, o)
  \/ \E r \in Runs : AnnounceTimerFires(r)

Spec == Init /\ [][Next]_vars

NextTimed == Next \/ Tick

SpecTimed == InitTimed /\ [][NextTimed]_vars

SpecSequential == InitSequential /\ [][Next]_vars

SpecOverlap == InitOverlap /\ [][Next]_vars

SpecProgress == InitProgress /\ [][Next]_vars

\* what run r is waiting for happens: its capability call settles, or its
\* timer fires (a run waits for one thing at a time)
RunStep(r) ==
  \/ \E a \in AvailabilityValues \cup {"throw"} : AvailabilitySettles(r, a)
  \/ \E ok \in BOOLEAN : CreateSettles(r, ok)
  \/ PacingTimerFires(r)
  \/ \E o \in SummaryOutcomes \cup LabelOutcomes : GenerationSettles(r, o)
  \/ AnnounceTimerFires(r)

\* every capability call of a run settles and every timer of a run fires
RunsProceed == \A r \in Runs : WF_vars(RunStep(r))

\* one command on a fresh document, with every call settling and every timer
\* firing
InitLive == InitDocument(FreshDocuments) /\ InitAnnouncer /\ mode = "single"

SpecLive == InitLive /\ [][Next]_vars /\ RunsProceed

\* what the announcer's actions leave alone
pipelineVars == <<script, nH, hShape, pageLen, sect, popup, mode, boxes, headingVars, cText, controlVars,
                  runs, runVars>>

\* the content script is loaded into the page (again)
LoadScript ==
  /\ live.loads < MaxLoads
  /\ live' = LoadedScript(live)
  /\ UNCHANGED pipelineVars

\* some code of the content script calls announce(text)
Announce(text) ==
  /\ live.loads > 0
  /\ Len(live.calls) < MaxAnnounce
  /\ live.calls # <<>> => live.since \in CallGaps
  /\ live' = AnnounceCall(live, text)
  /\ UNCHANGED pipelineVars

\* a timer of announce is due: the oldest due timer runs its callback
AnnounceTimer(i) ==
  /\ i \in 1..Len(live.timers)
  /\ live.timers[i].left = 0
  /\ \A j \in 1..(i - 1) : live.timers[j].left > 0
  /\ live' = [TimerCallback(live, live.timers[i]) EXCEPT !.timers = Remove(@, i)]
  /\ UNCHANGED pipelineVars

\* AnnounceTickMs of time pass while timers are pending and none is due
AnnounceTick ==
  /\ live.timers # <<>>
  /\ \A i \in 1..Len(live.timers) : live.timers[i].left > 0
  /\ live' = [live EXCEPT
                 !.timers = [i \in 1..Len(live.timers) |->
                               [live.timers[i] EXCEPT !.left = @ - 1]],
                 !.since = Min(ClearTicks, @ + 1)]
  /\ UNCHANGED pipelineVars

NextAnnounce ==
  \/ LoadScript
  \/ \E text \in AnnounceTexts : Announce(text)
  \/ \E i \in 1..(2 * MaxAnnounce) : AnnounceTimer(i)
  \/ AnnounceTick

SpecAnnounce == InitAnnounce /\ [][NextAnnounce]_vars

\* what the steps of the popup leave alone
popupFrame == <<script, nH, hShape, pageLen, sect, mode, boxes, headingVars, cText,
                controlVars, runs, runVars>>

\* the message listeners registered in the page: every load of the content
\* script registers one
Listeners == live.loads

\* a button of the popup is clicked: sendMessageToTab(action) up to the ping
PopupClick(action) ==
  /\ popup.pc = "idle"
  /\ Len(popup.sent) < MaxCommands
  /\ popup' = [popup EXCEPT !.pc = "ping", !.action = action]
  /\ UNCHANGED <<live, popupFrame>>

\* isContentScriptLoaded: response?.status === "pong"; with no listener in
\* the page sendMessage rejects and the catch returns false
isContentScriptLoaded == Listeners > 0 /\ ListenerReply("ping") = "pong"

\* the ping settles: the popup goes on to inject, or to send
PingSettles ==
  /\ popup.pc = "ping"
  /\ popup' = [popup EXCEPT !.pc = IF isContentScriptLoaded THEN "send" ELSE "inject"]
  /\ UNCHANGED <<live, popupFrame>>

\* chrome.scripting.executeScript settles: the script has run in the page, or
\* the injection failed and the command is given up
InjectSettles(ok) ==
  /\ popup.pc = "inject"
  /\ IF ok THEN /\ live' = LoadedScript(live)
                /\ popup' = [popup EXCEPT !.pc = "initTimer"]
     ELSE /\ live' = live
          /\ popup' = [popup EXCEPT !.pc = "idle", !.action = "none"]
  /\ UNCHANGED popupFrame

\* the 500 ms the popup waits after an injection are over
InitTimerFires ==
  /\ popup.pc = "initTimer"
  /\ popup' = [popup EXCEPT !.pc = "send"]
  /\ UNCHANGED <<live, popupFrame>>

\* chrome.tabs.sendMessage(tab.id, {action}): every listener of the page
\* receives the message and calls the pipeline function of the action
ActionDelivered ==
  /\ popup.pc = "send"
  /\ popup' = [popup EXCEPT !.pc = "idle", !.action = "none",
                            !.sent = Append(@, popup.action),
                            !.started = Append(@, Listeners)]
  /\ UNCHANGED <<live, popupFrame>>

NextPopup ==
  \/ \E action \in Commands : PopupClick(action)
  \/ PingSettles
  \/ \E ok \in BOOLEAN : InjectSettles(ok)
  \/ InitTimerFires
  \/ ActionDelivered

SpecPopup == InitPopup /\ [][NextPopup]_vars

\* what the steps of getSectionContent leave alone
sectionFrame == <<script, nH, hShape, pageLen, live, popup, mode, boxes, headingVars, cText,
                  controlVars, runs, runVars>>

\* one pass of the first loop: currentElement is the i-th sibling
SiblingStep ==
  /\ sect.pc = "siblings"
  /\ LET nodes == sect.shape.sec.sib
         c == [len |-> sect.len, sp |-> sect.sp]
     IN  IF sect.i > Len(nodes) THEN sect' = [sect EXCEPT !.pc = AfterSiblings(sect.len)]
         ELSE LET n == nodes[sect.i]
                  a == AddText(c, n)
                  from == IF a = c THEN sect.from ELSE sect.from \cup {Source("sib", sect.i)}
              IN  IF n.tag = "H" /\ n.rank <= sect.shape.rank
                    THEN sect' = [sect EXCEPT !.pc = AfterSiblings(sect.len)]
                  ELSE IF a.len > MaxSectionChars
                    THEN sect' = [sect EXCEPT !.len = MaxSectionChars,
                                              !.sp = c.len = MaxSectionChars /\ c.sp,
                                              !.from = from,
                                              !.pc = AfterSiblings(MaxSectionChars)]
                  ELSE sect' = [sect EXCEPT !.len = a.len, !.sp = a.sp, !.from = from,
                                            !.i = @ + 1]
  /\ UNCHANGED sectionFrame

\* the second loop: its first pass starts at parent.nextElementSibling
ParentSiblingStep ==
  /\ sect.pc \in {"parentSiblings", "parentSiblingsNext"}
  /\ LET nodes == sect.shape.sec.psib
         i == IF sect.pc = "parentSiblings" THEN 1 ELSE sect.i
         c == [len |-> sect.len, sp |-> sect.sp]
     IN  IF i > Len(nodes) \/ sect.len >= MaxSectionChars
           THEN sect' = [sect EXCEPT !.pc = "lastResort"]
         ELSE LET n == nodes[i]
                  a == AddText(c, n)
                  from == IF a = c THEN sect.from ELSE sect.from \cup {Source("psib", i)}
              IN  IF n.rank > 0 /\ n.rank <= sect.shape.rank
                    THEN sect' = [sect EXCEPT !.pc = "lastResort"]
                  ELSE sect' = [sect EXCEPT !.len = a.len, !.sp = a.sp, !.from = from,
                                            !.i = i + 1, !.pc = "parentSiblingsNext"]
  /\ UNCHANGED sectionFrame

\* the last resort and return content.trim()
ReturnContent ==
  /\ sect.pc = "lastResort"
  /\ LET sec == sect.shape.sec
         parentText == IF sec.ptext > MaxSectionChars THEN MaxSectionChars ELSE sec.ptext
     IN  IF sect.len < SectionFallbackLen
           THEN sect' = [sect EXCEPT !.len = parentText, !.sp = FALSE,
                                     !.from = ParentTextSources(sec), !.pc = "returned"]
           ELSE sect' = [sect EXCEPT !.len = IF sect.sp THEN @ - 1 ELSE @, !.sp = FALSE,
                                     !.pc = "returned"]
  /\ UNCHANGED sectionFrame

NextSection == SiblingStep \/ ParentSiblingStep \/ ReturnContent

SpecSection == InitSection /\ [][NextSection]_vars


\* ------------------------------------------------------------- the properties
LoopKinds == {"summaries", "cues", "labels"}
Count(seq, x) == Cardinality({i \in 1..Len(seq) : seq[i] = x})
Range(seq) == {seq[i] : i \in 1..Len(seq)}
Last(seq) == seq[Len(seq)]

\* C1: every session a run created has been destroyed exactly once when the
\* run ends, on every exit path, also when summarize/prompt throws.
\* (Stated as the claim; the code leaks the session of generateOverview and of
\* generateCues in part_000 when summarize() throws.)
C1_SessionsDestroyedExactlyOnce ==
  \A r \in Runs :
    /\ runs[r].destroyed <= runs[r].created
    /\ Ended(runs[r]) => runs[r].destroyed = runs[r].created

\* C2: a run that got past the capability check and the precondition check
\* creates exactly one session for the whole run (every create() succeeding),
\* and no run creates a second session.
C2_ExactlyOneSessionPerRun ==
  \A r \in Runs :
    /\ runs[r].created <= 1
    /\ (Ended(runs[r]) /\ runs[r].pastChecks /\ runs[r].createFailures = 0)
         => runs[r].created = 1

\* C3: no generation call takes as its item a node that carries the processed
\* marker (heading) or the fixed marker (control) at the moment of the call.
C3_MarkedNeverResubmitted ==
  \A r \in Runs : ~runs[r].resubmitted

\* C4 (as claimed): once a section-summaries run has completed, a following
\* section-summaries run changes neither the set of marked headings nor the
\* inserted notes.
C4_SecondRunChangesNothing ==
  [][ \A r \in Runs :
        (runs[r].kind = "summaries" /\ Active(runs[r]) /\ "summaries" \in earlier)
        => (hSummary' = hSummary /\ notes' = notes) ]_vars

\* C4 (amended): with section-summaries runs made one after the other, every
\* marked heading has exactly one summary note and no unmarked heading has
\* one, after the first run and after every later run: a second run never
\* duplicates a note (it may still mark headings the first run left unmarked).
C4_NoDuplicateNotes ==
  \A h \in HeadingIds : notes[h] = IF h \in hSummary THEN 1 ELSE 0

\* C4 witness: a second section-summaries run has completed after a first one
\* that marked a heading.
C4_Witness ==
  \E r \in Runs :
    /\ "summaries" \in earlier
    /\ runs[r].kind = "summaries" /\ runs[r].outcome = "completed"
    /\ Len(runs[r].results) = Len(runs[r].items)
    /\ \E i \in 1..Len(runs[r].items) :
         runs[r].results[i] = "skipped" /\ runs[r].items[i] \in hSummary

\* C5: when availability() answers "no" the run is Aborted at once: it makes
\* no announcement between the starting one and the failure, exactly one
\* failure announcement is emitted (in generateOverview after its 500 ms
\* timer), no session is created and no create or generation call is made.
C5_UnavailableAborts ==
  \A r \in Runs :
    runs[r].availability = "no" =>
      /\ runs[r].outcome = "aborted"
      /\ runs[r].createCalls = 0 /\ runs[r].genCalls = 0 /\ runs[r].created = 0
      /\ runs[r].inflight = 0
      /\ \/ runs[r].pc = "done" /\ runs[r].ann = <<"start", "failed">>
         \/ /\ runs[r].pc = "announceTimer" /\ runs[r].pendingAnn = "failed"
            /\ runs[r].kind = "overview" /\ runs[r].ann = <<"start">>

\* C5 witness: a run whose availability() answered "no" has finished.
C5_Witness ==
  \E r \in Runs : runs[r].availability = "no" /\ runs[r].pc = "done"

\* C6: in the item loops (section summaries, cues, label repair) a failure
\* inside one item's try block changes nothing in the document, is followed
\* by no failure announcement, leaves the run in its loop, and the run ends
\* Completed with its final announcement after every item was handled.
C6_ItemFailureIsolated ==
  /\ [][ \A r \in Runs :
           runs'[r].itemFailures > runs[r].itemFailures
             => UNCHANGED <<boxes, hSummary, hCue, hDesc, notes, cLabel, cFixed>> ]_vars
  /\ [](\A r \in Runs :
          runs[r].itemFailures > 0 =>
            /\ runs[r].kind \in LoopKinds
            /\ "failed" \notin Range(runs[r].ann)
            /\ runs[r].pendingAnn = "none"
            /\ IF Ended(runs[r])
                 THEN /\ runs[r].outcome = "completed"
                      /\ Len(runs[r].results) = Len(runs[r].items)
                      /\ Last(runs[r].ann) = "complete"
                 ELSE runs[r].pc \in {"delay", "awaitCreate", "awaitGen"})

\* C6 witness: a run completed whose first item failed and whose second item
\* was accepted.
C6_Witness ==
  \E r \in Runs :
    /\ runs[r].outcome = "completed" /\ runs[r].itemFailures > 0
    /\ Len(runs[r].results) >= 2
    /\ runs[r].results[1] = "failed" /\ runs[r].results[2] = "accepted"

\* C7: a create() that throws aborts the run: the run is Aborted, makes no
\* completion announcement and handles no further item.
C7_CreateFailureAbortsRun ==
  \A r \in Runs :
    runs[r].createFailures > 0 =>
      /\ runs[r].outcome = "aborted"
      /\ "complete" \notin Range(runs[r].ann)

\* the whole-document precondition of a run has been evaluated and failed
TargetsMissing(rr) ==
  /\ rr.availability \in AvailabilityValues \ {"no"}
  /\ IF rr.kind = "overview" THEN pageLen < MinPageLen ELSE rr.items = <<>>

\* C8 (as claimed): a run that aborts on its precondition has made no
\* capability call at all: none of availability(), create(), run().
C8_NoCapabilityCallOnPreconditionAbort ==
  \A r \in Runs : TargetsMissing(runs[r]) => CapCalls(runs[r]) = 0

\* C8 (amended): a run whose precondition fails aborts with the precondition
\* notice as its last announcement, having called availability() once and
\* neither create() nor a generation call, and it calls none afterwards.
C8_NoSessionOnPreconditionAbort ==
  \A r \in Runs :
    TargetsMissing(runs[r]) =>
      /\ runs[r].outcome = "aborted" /\ runs[r].pc = "done"
      /\ Last(runs[r].ann) = "precondition"
      /\ runs[r].availCalls = 1
      /\ runs[r].createCalls = 0 /\ runs[r].genCalls = 0 /\ runs[r].created = 0
      /\ runs[r].inflight = 0

\* C8 witness: an overview or label-repair run aborted on its precondition.
C8_Witness ==
  \E r \in Runs :
    /\ TargetsMissing(runs[r]) /\ runs[r].pc = "done"
    /\ runs[r].kind \in {"overview", "labels"}

\* the pacing delay the claim names for a pipeline, in ticks
ConfiguredDelayTicks(kind) ==
  CASE kind = "labels" -> DelayLabelsMs \div TickMs
    [] kind = "cues" -> DelayCuesMs \div TickMs
    [] kind = "summaries" -> DelaySummariesMs \div TickMs

\* C9 (as claimed): within a run any two consecutive capability calls
\* (availability, create, generation) are at least the pacing delay apart and
\* the delay has elapsed before each item's call.
C9_CapabilityCallsPaced ==
  \A r \in Runs :
    runs[r].kind \in LoopKinds =>
      /\ runs[r].capGapMin >= ConfiguredDelayTicks(runs[r].kind)
      /\ runs[r].waitedMin >= ConfiguredDelayTicks(runs[r].kind)

\* C9 (amended): within a run of an item loop any two consecutive generation
\* calls (summarize / prompt) are at least the pipeline's pacing delay apart
\* (600 ms label repair, 800 ms cues, 1000 ms section summaries), and the
\* delay has elapsed in the iteration before each generation call, the first
\* included.
C9_GenerationCallsPaced ==
  \A r \in Runs :
    runs[r].kind \in LoopKinds =>
      /\ runs[r].genGapMin >= ConfiguredDelayTicks(runs[r].kind)
      /\ runs[r].waitedMin >= ConfiguredDelayTicks(runs[r].kind)

\* C9 witness: a run has begun its second generation call.
C9_Witness ==
  \E r \in Runs : runs[r].kind \in LoopKinds /\ runs[r].genCalls >= 2

\* position of an item's node in the document
DocPos(kind, n) == IF kind = "labels" THEN n ELSE DocPosH(n)

\* the marker and the result of an accepted item are in the document
Written(kind, n) ==
  CASE kind = "summaries" -> n \in hSummary /\ notes[n] >= 1
    [] kind = "cues" -> n \in hCue /\ n \in hDesc
    [] kind = "labels" -> n \in cFixed /\ cLabel[n].has

\* C10: a run takes its items in document order, has at most one capability
\* call in flight, and when the generation call of an item begins every
\* earlier item is finished, the marker and result of an accepted one written.
C10_SequentialInDocumentOrder ==
  \A r \in Runs :
    LET rr == runs[r] IN
    /\ rr.inflight <= 1
    /\ rr.kind \in LoopKinds =>
         /\ \A i, j \in 1..Len(rr.items) :
              i < j => DocPos(rr.kind, rr.items[i]) < DocPos(rr.kind, rr.items[j])
         /\ \A i, j \in 1..Len(rr.called) : i < j => rr.called[i] < rr.called[j]
         /\ rr.pc \in {"awaitCreate", "awaitGen"} /\ rr.idx >= 1 =>
              /\ Len(rr.results) = rr.idx - 1
              /\ \A k \in 1..(rr.idx - 1) :
                   rr.results[k] = "accepted" => Written(rr.kind, rr.items[k])

\* C10 witness: the generation call of a second item is in flight after the
\* first item was accepted.
C10_Witness ==
  \E r \in Runs :
    /\ runs[r].pc = "awaitGen" /\ runs[r].idx = 2
    /\ runs[r].results = <<"accepted">>

\* the pipeline function of the run has not returned yet
Running(rr) == Active(rr) /\ ~Ended(rr)

\* sessions created by the runs and not destroyed
LiveSessions == {<<r, k>> \in Runs \X (1..(MaxH + MaxRuns)) :
                   k <= runs[r].created - runs[r].destroyed}

\* C11: whatever commands the listener receives, at most one run is active at
\* any moment and at most one capability session is live at any moment.
\* (Stated as the claim; the listener starts a pipeline for every command and
\* has no guard against a run that is still active.)
C11_OneRunAtATime ==
  /\ Cardinality({r \in Runs : Running(runs[r])}) <= 1
  /\ Cardinality(LiveSessions) <= 1

\* words of a label: the maximal runs of non-space characters
WordCount(s) ==
  Cardinality({i \in 1..Len(s) : s[i] # " " /\ (i = 1 \/ s[i - 1] = " ")})

\* the acceptance policy as claimed: at least one non-whitespace character and
\* at most 8 words
NonBlankAtMostEightWords(label) ==
  /\ \E i \in 1..Len(label) : label[i] \notin Whitespace
  /\ WordCount(label) <= MaxLabelWords

\* C12: label repair writes the cleaned label of a response as the control's
\* aria-label, and marks the control, if and only if the cleaned label has a
\* non-whitespace character and at most 8 words; otherwise the control is
\* left untouched and unmarked.
\* (Stated as the claim; the code tests label && label.split(" ").length <= 8.)
C12_LabelWrittenIffAcceptable ==
  [][ \A r \in Runs, o \in LabelOutcomes :
        (runs[r].kind = "labels" /\ o.t = "str" /\ GenerationSettles(r, o)) =>
          LET c == runs[r].items[runs[r].idx]
              label == CleanLabel(o.s)
          IN  IF NonBlankAtMostEightWords(label)
                THEN cLabel'[c] = [has |-> TRUE, v |-> label] /\ c \in cFixed'
                ELSE cLabel'[c] = cLabel[c] /\ cFixed' = cFixed ]_vars

\* the response is a string that fails the acceptance policy of the pipeline
PolicyRejects(kind, o) ==
  /\ o.t = "str"
  /\ CASE kind \in {"overview", "summaries"} -> Trim(o.s) = <<>>
       [] kind = "cues" -> CleanCue(o.s) = <<>>
       [] kind = "labels" ->
            LET label == CleanLabel(o.s)
            IN  label = <<>> \/ SplitSpaceLength(label) > MaxLabelWords

\* C13: a response that fails the acceptance policy is a no-op and not an
\* error, in the whole-page overview as in the item loops: the document is
\* left unchanged, no error is raised (the run is not aborted, no item failure
\* is logged) and no failure announcement is emitted or scheduled.
\* (Stated as the claim; generateOverview throws on an empty summary.)
C13_RejectedResultIsNoOp ==
  [][ \A r \in Runs, o \in SummaryOutcomes \cup LabelOutcomes :
        (runs[r].pc = "awaitGen" /\ PolicyRejects(runs[r].kind, o)
           /\ GenerationSettles(r, o)) =>
          /\ UNCHANGED <<boxes, hSummary, hCue, hDesc, notes, cLabel, cFixed>>
          /\ runs'[r].outcome # "aborted"
          /\ runs'[r].itemFailures = runs[r].itemFailures
          /\ "failed" \notin Range(runs'[r].ann)
          /\ runs'[r].pendingAnn # "failed" ]_vars

\* no element occurs twice in the sequence
NoDuplicates(seq) == \A i, j \in 1..Len(seq) : i # j => seq[i] # seq[j]

\* C14: in a run of an item loop the result, the marker and the success
\* counter go together: the counter always equals the number of nodes the run
\* marked and the number of results it wrote, on the same nodes, each once;
\* the final announcement carries that count; every node the run marked
\* carries marker and result in the document, and in the document a heading
\* carries the marker if and only if it carries the result (a fixed control
\* carries an aria-label).
C14_ResultMarkerCounterTogether ==
  /\ \A r \in Runs :
       LET rr == runs[r] IN
       rr.kind \in LoopKinds =>
         /\ rr.successCount = Len(rr.marked)
         /\ rr.marked = rr.written
         /\ NoDuplicates(rr.marked)
         /\ \A i \in 1..Len(rr.marked) : Written(rr.kind, rr.marked[i])
         /\ rr.outcome = "completed" => rr.finalCount = Len(rr.marked)
  /\ \A h \in HeadingIds : h \in hSummary <=> notes[h] >= 1
  /\ hCue = hDesc
  /\ \A c \in cFixed : cLabel[c].has

\* C14 witness: a run over two items completed with one item accepted and the
\* other not.
C14_Witness ==
  \E r \in Runs :
    /\ runs[r].kind \in LoopKinds /\ runs[r].outcome = "completed"
    /\ Len(runs[r].items) = 2 /\ runs[r].finalCount = 1
    /\ Len(runs[r].marked) = 1

\* the number of items between two progress announcements
ProgressEvery(kind) == IF kind = "labels" THEN ProgressEveryElements ELSE ProgressEveryHeadings

C16_TwoCyclesForRepeatedAnnounce ==
  ( /\ Len(live.calls) = 2
    /\ live.calls[1].text = live.calls[2].text
    /\ live.calls[2].gap = 0
    /\ \A i \in 1..Len(live.timers) : live.timers[i].kind # "set" )
  => live.rises = 2

\* C17: the document never holds more than one announcer live region; the
\* region exists once the script has been loaded or announce has been called,
\* every later load and every later announce call leaves the number of
\* regions at one, and no step removes the region.
C17_OneLiveRegion ==
  /\ [](live.regions <= 1)
  /\ []((live.loads > 0 \/ live.calls # <<>>) => live.regions = 1)
  /\ [][live'.regions >= live.regions]_vars

\* C17 witness: the script was loaded twice and announce was called twice, and
\* one region exists.
C17_Witness ==
  live.loads = 2 /\ Len(live.calls) = 2 /\ live.regions = 1

\* the run a work command has just started: the pipeline function is at its
\* first await, or has failed before it, and no capability call has returned
JustStarted(rr, cmd) ==
  /\ rr.kind = KindOf(cmd)
  /\ rr.availability = "none" /\ rr.availCalls <= 1
  /\ rr.createCalls = 0 /\ rr.genCalls = 0
  /\ rr.pc = "awaitAvail" \/ Ended(rr)

\* C18: the listener answers every message once and in the step that receives
\* it: {status: started} for each of the three work commands, with exactly
\* one run started and no capability call of it returned yet, and
\* unknown_action for an action it does not know, with no run started and the
\* document unchanged; an answer is never changed or repeated later, whatever
\* the outcome of the run.
C18_StartedAnsweredOnce ==
  /\ [](Len(replies) = started)
  /\ [](\A i \in 1..Len(replies) :
          replies[i].status =
            IF replies[i].action \in Commands THEN "started"
            ELSE IF replies[i].action = "ping" /\ script = "part_000" THEN "pong"
            ELSE "unknown_action")
  /\ [][ /\ replies' = replies \/ (Len(replies') = Len(replies) + 1
                                     /\ SubSeq(replies', 1, Len(replies)) = replies)
         /\ replies' # replies =>
              LET m == Last(replies') IN
              IF m.action \in Commands
                THEN \E r \in Runs :
                       /\ ~Active(runs[r]) /\ JustStarted(runs'[r], m.action)
                       /\ \A q \in Runs \ {r} : runs'[q] = runs[q]
                ELSE runs' = runs
                     /\ UNCHANGED <<boxes, hSummary, hCue, hDesc, notes, cLabel, cFixed>> ]_vars

\* C18 witness: a work command was answered started and its run has aborted,
\* and another message was answered unknown_action.
C18_Witness ==
  /\ \E i \in 1..Len(replies) : replies[i].status = "started"
  /\ \E i \in 1..Len(replies) : replies[i].status = "unknown_action"
  /\ \E r \in Runs : runs[r].outcome = "aborted"

\* the accessible-name override of a control, trimmed; empty when it has none
Override(c) == IF cLabel[c].has THEN Trim(cLabel[c].v) ELSE <<>>

\* the visible text of a control is ambiguous: one of the fixed phrases, or
\* shorter than 3 characters, or empty, once trimmed and lower-cased
AmbiguousText(c) ==
  LET text == ToLowerCase(Trim(cText[c]))
  IN  \/ \E t \in ambiguousTerms : t = text
      \/ Len(text) \in {0, 1, 2}

\* C19: when label repair collects its targets, a control is selected if and
\* only if its override is empty after trimming and its visible text is
\* ambiguous; a control with a non-empty override is never selected; the
\* selected controls are listed once each, in document order.
C19_SelectionRule ==
  [][\A r \in Runs, a \in AvailabilityValues \ {"no"} :
       (runs[r].kind = "labels" /\ AvailabilitySettles(r, a)) =>
         LET items == runs'[r].items IN
         /\ \A c \in Controls :
              (\E i \in 1..Len(items) : items[i] = c)
                <=> (Override(c) = <<>> /\ AmbiguousText(c))
         /\ \A i \in 1..Len(items) : Override(items[i]) = <<>>
         /\ \A i, j \in 1..Len(items) : i < j => items[i] < items[j]]_vars

\* C19 witness: label repair has collected its targets and not yet changed a
\* control; a control with a whitespace-only override or with padded text is
\* among them, and a control with a short text and a real override is not.
C19_Witness ==
  \E r \in Runs :
    /\ runs[r].kind = "labels" /\ runs[r].pastChecks /\ runs[r].genCalls = 0
    /\ \E i \in 1..Len(runs[r].items) :
         LET c == runs[r].items[i]
         IN  (cLabel[c].has /\ Override(c) = <<>>) \/ Trim(cText[c]) # cText[c]
    /\ \E c \in Controls :
         /\ \A i \in 1..Len(runs[r].items) : runs[r].items[i] # c
         /\ Len(cText[c]) < 3 /\ Override(c) # <<>>

\* the length of the content string a run has handed to the generation call
\* it is waiting for: the page text of an overview, the section text of the
\* heading a summaries run is at
HandedContentLen(rr) ==
  IF rr.kind = "overview" THEN extractMainContentLen
  ELSE getSectionContentLen(rr.items[rr.idx])

\* C20: every content string handed to a generation call is length-bounded:
\* the whole-page text is at most 5000 characters and the section text that
\* getSectionContent returned is at most 3000 characters, whichever of its
\* three tiers produced it.
C20_ContentLengthBounded ==
  \A r \in Runs :
    (runs[r].pc = "awaitGen" /\ runs[r].kind \in {"overview", "summaries"}) =>
      HandedContentLen(runs[r]) <=
        (IF runs[r].kind = "overview" THEN MaxPageChars ELSE MaxSectionChars)

\* the index of the first element of nodes that is, or holds, a heading of
\* the level of the heading under test or of a higher level
FirstLaterHeading(nodes, level) ==
  LET stops == {i \in 1..Len(nodes) : nodes[i].rank > 0 /\ nodes[i].rank <= level}
  IN  IF stops = {} THEN Len(nodes) + 1 ELSE CHOOSE i \in stops : \A j \in stops : i <= j

\* the steps of getSectionContent and SectionContentLen return the same length
SectionStepsAgree == sect.pc = "returned" => sect.len = SectionContentLen(sect.shape)

\* C21: the text getSectionContent(H) returns holds nothing of the first
\* later sibling heading of H's level or higher, nor of anything after it,
\* whichever tier produced the text.
C21_NothingFromLaterSection ==
  sect.pc = "returned" =>
    LET sec == sect.shape.sec
        stop == FirstLaterHeading(sec.sib, sect.shape.rank)
        pstop == FirstLaterHeading(sec.psib, sect.shape.rank)
    IN  \A s \in sect.from :
          /\ s.list = "sib" => s.i < stop
          /\ s.list = "psib" => stop > Len(sec.sib) /\ s.i < pstop

\* the length of a heading's own section text: the text of the siblings that
\* follow it, up to the next heading of its level or higher, trimmed
OwnSectionLen(h) ==
  LET c == SiblingsText(Shape(h).sec.sib, Shape(h).rank, [len |-> 0, sp |-> FALSE])
  IN  IF c.sp THEN c.len - 1 ELSE c.len

\* C22: a section-summaries run attempts enrichment only for headings whose
\* own section text has at least 50 characters: a heading with a shorter
\* section is skipped before any capability call, gets no marker and no note,
\* and is not counted.
C22_ShortSectionSkipped ==
  \A r \in Runs :
    runs[r].kind = "summaries" =>
      \A k \in 1..Len(runs[r].items) :
        OwnSectionLen(runs[r].items[k]) < SectionFallbackLen =>
          /\ (runs[r].idx = k => runs[r].pc \notin {"awaitCreate", "awaitGen"})
          /\ k \notin Range(runs[r].called)
          /\ runs[r].items[k] \notin Range(runs[r].marked) \cup Range(runs[r].written)
          /\ k <= Len(runs[r].results) => runs[r].results[k] = "skipped"

\* C23: the step in which an overview run succeeds inserts one summary block,
\* and that block is the first child of body (its heading is the first
\* heading of the document); any other step of an overview run, and so a run
\* that fails, is rejected or aborts on its precondition, inserts no block and
\* leaves the content of body as it was.
C23_SummaryBlockFirstChild ==
  [][\A r \in Runs :
       (runs[r].kind = "overview" /\ runs'[r] # runs[r]) =>
         IF runs'[r].outcome = "completed" /\ runs[r].outcome # "completed"
           THEN /\ boxes' = boxes + 1
                /\ Head(QueryHeadings') = MaxH + boxes'
                /\ UNCHANGED <<headingVars, cText, controlVars>>
           ELSE UNCHANGED <<boxes, headingVars, cText, controlVars>>]_vars

\* the state of the declared state machine a run is in
Phase(rr) ==
  CASE rr.pc = "idle" -> "Idle"
    [] rr.pc = "awaitAvail" -> "CapabilityCheck"
    [] rr.pc = "awaitCreate" /\ rr.kind # "summaries" -> "AwaitingDownload"
    [] rr.pc \in {"announceTimer", "done"} ->
         IF rr.outcome = "completed" THEN "Completed" ELSE "Aborted"
    [] OTHER -> "Running"

\* the transitions of the declared state machine; Unavailable is an abort
PhaseEdges ==
  { <<"Idle", "CapabilityCheck">>, <<"Idle", "Aborted">>,
    <<"CapabilityCheck", "Aborted">>, <<"CapabilityCheck", "AwaitingDownload">>,
    <<"CapabilityCheck", "Running">>,
    <<"AwaitingDownload", "Running">>, <<"AwaitingDownload", "Aborted">>,
    <<"Running", "Running">>, <<"Running", "Completed">>, <<"Running", "Aborted">>,
    <<"Completed", "Completed">>, <<"Aborted", "Aborted">> }

\* C24: when every capability call settles and every timer fires, every
\* started run ends, completed or aborted, with its function returned; on the
\* way it takes only transitions of the declared state machine, and the item
\* index of Running(i) stays or grows by one.
C24_EveryRunEnds ==
  /\ \A r \in Runs :
       (runs[r].pc # "idle") ~>
         (runs[r].pc = "done" /\ runs[r].outcome \in {"completed", "aborted"})
  /\ [][\A r \in Runs :
          runs'[r] # runs[r] =>
            /\ <<Phase(runs[r]), Phase(runs'[r])>> \in PhaseEdges
            /\ runs'[r].idx \in {runs[r].idx, runs[r].idx + 1}]_vars

\* C24 witness: a run has gone through two items and has completed, and its
\* function has returned.
C24_Witness ==
  \E r \in Runs :
    /\ runs[r].pc = "done" /\ runs[r].outcome = "completed"
    /\ runs[r].idx = 2 /\ Len(runs[r].results) = 2

\* C25: within one run no item is handed to a generation call twice: the
\* items of the calls are pairwise different and taken in the order of the
\* list, every generation call is one of them, and an overview run makes at
\* most one generation call; so an item whose call failed or whose result
\* was rejected is not submitted again.
C25_OneGenerationCallPerItem ==
  \A r \in Runs :
    LET rr == runs[r] IN
    IF rr.kind \in LoopKinds
      THEN /\ Len(rr.called) = rr.genCalls
           /\ \A i \in 1..Len(rr.called) : rr.called[i] \in 1..rr.idx
           /\ \A i, j \in 1..Len(rr.called) :
                i < j => /\ rr.called[i] < rr.called[j]
                         /\ rr.items[rr.called[i]] # rr.items[rr.called[j]]
      ELSE rr.genCalls <= 1

\* C25 witness: the call for the first item failed or its result was
\* rejected, and the run went on to a generation call for the second item.
C25_Witness ==
  \E r \in Runs :
    /\ runs[r].kind \in LoopKinds
    /\ Len(runs[r].results) >= 1 /\ runs[r].results[1] \in {"failed", "rejected"}
    /\ runs[r].called = <<1, 2>>

\* the generation calls that runs of the heading pipelines have made for h
SubmissionsOf(h) ==
  { <<r, i>> \in Runs \X (1..MaxH + MaxRuns) :
      /\ runs[r].kind \in {"summaries", "cues"}
      /\ i <= Len(runs[r].called)
      /\ runs[r].items[runs[r].called[i]] = h }

\* C26: also when runs of the section pipeline overlap, every heading has at
\* most one inserted summary note and has been submitted to generation at
\* most once.
C26_OverlapKeepsOneNote ==
  \A h \in HeadingIds :
    /\ notes[h] <= 1
    /\ Cardinality(SubmissionsOf(h)) <= 1

\* the region shows the text of the latest announce call: a text is set and
\* no set timer is pending
ShowsLatest(l) ==
  /\ l.text # ""
  /\ \A i \in 1..Len(l.timers) : l.timers[i].kind # "set"

\* C28: the text of the latest announcement stays in the live region until a
\* later announce call clears it or until 10 s have passed since its own
\* call: no timer of an earlier announcement clears or overwrites it.
C28_TextStaysTenSeconds ==
  [][(ShowsLatest(live) /\ live'.text # live.text) =>
       \/ Len(live'.calls) = Len(live.calls) + 1
       \/ live.since >= ClearTicks]_vars

\* the announcements that end a run: completion, run-level failure, the
\* precondition notice
TerminalAnnouncements == {"complete", "failed", "precondition"}

\* C29: a run makes at most one terminal announcement and makes no announce
\* call after it; a run whose function has returned and whose timers have
\* fired has made exactly one; the announcement is a completion exactly when
\* the run completed, so no run announces both completion and failure.
C29_OneTerminalAnnouncement ==
  \A r \in Runs :
    LET rr == runs[r]
        terminal == {i \in 1..Len(rr.ann) : rr.ann[i] \in TerminalAnnouncements}
    IN  /\ Cardinality(terminal) <= 1
        /\ terminal # {} => terminal = {Len(rr.ann)}
        /\ rr.pc = "done" =>
             /\ Cardinality(terminal) = 1
             /\ Last(rr.ann) = "complete" <=> rr.outcome = "completed"

\* C29 witness: an overview run failed after its generation call and has
\* announced the failure, after the start and the generating announcements.
C29_Witness ==
  \E r \in Runs :
    /\ runs[r].kind = "overview" /\ runs[r].pc = "done" /\ runs[r].genCalls = 1
    /\ runs[r].outcome = "aborted"
    /\ Len(runs[r].ann) >= 3 /\ Last(runs[r].ann) = "failed"

\* C30: what the pipeline wrote is never a target of a later run and is never
\* sent to generation: the headings a run of a heading pipeline enumerates are
\* headings of the original document, not the heading of an inserted summary
\* block, and no generation call is made for a summary block.
C30_ArtifactsNeverTargets ==
  \A r \in Runs :
    runs[r].kind \in {"summaries", "cues"} =>
      /\ \A i \in 1..Len(runs[r].items) : runs[r].items[i] \in 1..nH
      /\ \A i \in 1..Len(runs[r].called) :
           runs[r].items[runs[r].called[i]] \notin BoxHeadings

\* C27: after any sequence of popup commands the page has at most one message
\* listener, exactly one once a command has been sent, and every command
\* sent has started exactly one pipeline run, with either content script.
C27_OneListenerOneRun ==
  /\ Listeners <= 1
  /\ popup.sent # <<>> => Listeners = 1
  /\ \A i \in 1..Len(popup.started) : popup.started[i] = 1
====
